---- MODULE Spec2Model ----
(***************************************************************************)
(* Model of the release automation of cpp-linter-rs:                       *)
(*   .github/workflows/bump_version.py                                     *)
(*   .github/workflows/replace_version_spec.py                             *)
(* Text is modelled as TLA+ strings holding the UTF-8 encoding of the      *)
(* text, written as in a URL: a byte below 0x80 is the ASCII character     *)
(* itself, a byte from 0x80 up is %XX with its two upper-case hexadecimal  *)
(* digits, and the byte of "%" is %25.  Indexes count the characters of    *)
(* that form.  The regular expressions VER_PATTERN and VERSION_LOG are     *)
(* modelled by matchers that walk the text the way the regex engine does.  *)
(* The files read are taken to be valid UTF-8 (no UnicodeDecodeError), and *)
(* the script is run from the repository root, so that the CHANGELOG.md    *)
(* that `git cliff` writes (line 127) is the file get_release_notes opens  *)
(* (line 83) and therefore exists.                                         *)
(***************************************************************************)
EXTENDS Integers, Sequences, FiniteSets, TLC

VARIABLES
    pc,             \* position of the running function
    err,            \* exception that terminated the run, "none" while running
    component,      \* Updater.component (the CLI argument)
    new_version,    \* Updater.new_version (class attribute); in
                    \* replace_version_spec.py, args.new_version
    ver,            \* local list `ver` of the last Updater.replace call
    cargo_exists,   \* Cargo.toml is in the working directory
    cargo_file,     \* content of Cargo.toml on disk, "" when there is none
    doc,            \* local `doc` of main
    changelog,      \* content of CHANGELOG.md on disk
    calls,          \* external commands invoked so far, in order
    tag,            \* parameter `tag` of get_release_notes
    lines,          \* log.readlines() inside get_release_notes
    ln,             \* number of lines the scan loop has consumed
    found_notes,    \* local `found_notes` of get_release_notes
    title,          \* local `title` of get_release_notes
    buf,            \* local `buf` of get_release_notes
    ret,            \* value returned by get_release_notes
    exit_code       \* value returned by replace_version_spec.main

vars == <<pc, err, component, new_version, ver, cargo_exists, cargo_file, doc,
          changelog, calls, tag, lines, ln, found_notes, title, buf, ret,
          exit_code>>

(***************************************************************************)
(* Bounds of the model.                                                    *)
(***************************************************************************)
MaxComp == 2            \* largest version component drawn for the patch inputs
MaxManifestLines == 2   \* lines of a manifest drawn for the pipeline
MaxLogLines == 4        \* lines of a changelog drawn for the extractor

(***************************************************************************)
(* Characters and numbers.                                                 *)
(***************************************************************************)
\* the character at 1-based index i, "" outside the text
Ch(s, i) == IF i >= 1 /\ i <= Len(s) THEN SubSeq(s, i, i) ELSE ""

\* \d of a bytes pattern (VERSION_LOG): the ASCII digits
AsciiDigits == {"0", "1", "2", "3", "4", "5", "6", "7", "8", "9"}

\* The decimal digits outside ASCII that \d of a str pattern matches and
\* int() converts (str.isdecimal, Unicode category Nd) come in rows of ten
\* consecutive code points with the values 0 to 9.  No row crosses a block of
\* 64 code points, so the UTF-8 encodings of the digits of a row differ in
\* their last byte only.  ZeroDigits holds the digit zero of every row.
ZeroDigits ==
    <<
       "%D9%A0",       \* U+0660.. ARABIC-INDIC DIGIT
       "%DB%B0",       \* U+06F0.. EXTENDED ARABIC-INDIC DIGIT
       "%DF%80",       \* U+07C0.. NKO DIGIT
       "%E0%A5%A6",    \* U+0966.. DEVANAGARI DIGIT
       "%E0%A7%A6",    \* U+09E6.. BENGALI DIGIT
       "%E0%A9%A6",    \* U+0A66.. GURMUKHI DIGIT
       "%E0%AB%A6",    \* U+0AE6.. GUJARATI DIGIT
       "%E0%AD%A6",    \* U+0B66.. ORIYA DIGIT
       "%E0%AF%A6",    \* U+0BE6.. TAMIL DIGIT
       "%E0%B1%A6",    \* U+0C66.. TELUGU DIGIT
       "%E0%B3%A6",    \* U+0CE6.. KANNADA DIGIT
       "%E0%B5%A6",    \* U+0D66.. MALAYALAM DIGIT
       "%E0%B7%A6",    \* U+0DE6.. SINHALA LITH DIGIT
       "%E0%B9%90",    \* U+0E50.. THAI DIGIT
       "%E0%BB%90",    \* U+0ED0.. LAO DIGIT
       "%E0%BC%A0",    \* U+0F20.. TIBETAN DIGIT
       "%E1%81%80",    \* U+1040.. MYANMAR DIGIT
       "%E1%82%90",    \* U+1090.. MYANMAR SHAN DIGIT
       "%E1%9F%A0",    \* U+17E0.. KHMER DIGIT
       "%E1%A0%90",    \* U+1810.. MONGOLIAN DIGIT
       "%E1%A5%86",    \* U+1946.. LIMBU DIGIT
       "%E1%A7%90",    \* U+19D0.. NEW TAI LUE DIGIT
       "%E1%AA%80",    \* U+1A80.. TAI THAM HORA DIGIT
       "%E1%AA%90",    \* U+1A90.. TAI THAM THAM DIGIT
       "%E1%AD%90",    \* U+1B50.. BALINESE DIGIT
       "%E1%AE%B0",    \* U+1BB0.. SUNDANESE DIGIT
       "%E1%B1%80",    \* U+1C40.. LEPCHA DIGIT
       "%E1%B1%90",    \* U+1C50.. OL CHIKI DIGIT
       "%EA%98%A0",    \* U+A620.. VAI DIGIT
       "%EA%A3%90",    \* U+A8D0.. SAURASHTRA DIGIT
       "%EA%A4%80",    \* U+A900.. KAYAH LI DIGIT
       "%EA%A7%90",    \* U+A9D0.. JAVANESE DIGIT
       "%EA%A7%B0",    \* U+A9F0.. MYANMAR TAI LAING DIGIT
       "%EA%A9%90",    \* U+AA50.. CHAM DIGIT
       "%EA%AF%B0",    \* U+ABF0.. MEETEI MAYEK DIGIT
       "%EF%BC%90",    \* U+FF10.. FULLWIDTH DIGIT
       "%F0%90%92%A0", \* U+104A0.. OSMANYA DIGIT
       "%F0%90%B4%B0", \* U+10D30.. HANIFI ROHINGYA DIGIT
       "%F0%91%81%A6", \* U+11066.. BRAHMI DIGIT
       "%F0%91%83%B0", \* U+110F0.. SORA SOMPENG DIGIT
       "%F0%91%84%B6", \* U+11136.. CHAKMA DIGIT
       "%F0%91%87%90", \* U+111D0.. SHARADA DIGIT
       "%F0%91%8B%B0", \* U+112F0.. KHUDAWADI DIGIT
       "%F0%91%91%90", \* U+11450.. NEWA DIGIT
       "%F0%91%93%90", \* U+114D0.. TIRHUTA DIGIT
       "%F0%91%99%90", \* U+11650.. MODI DIGIT
       "%F0%91%9B%80", \* U+116C0.. TAKRI DIGIT
       "%F0%91%9C%B0", \* U+11730.. AHOM DIGIT
       "%F0%91%A3%A0", \* U+118E0.. WARANG CITI DIGIT
       "%F0%91%A5%90", \* U+11950.. DIVES AKURU DIGIT
       "%F0%91%B1%90", \* U+11C50.. BHAIKSUKI DIGIT
       "%F0%91%B5%90", \* U+11D50.. MASARAM GONDI DIGIT
       "%F0%91%B6%A0", \* U+11DA0.. GUNJALA GONDI DIGIT
       "%F0%96%A9%A0", \* U+16A60.. MRO DIGIT
       "%F0%96%AB%80", \* U+16AC0.. TANGSA DIGIT
       "%F0%96%AD%90", \* U+16B50.. PAHAWH HMONG DIGIT
       "%F0%9D%9F%8E", \* U+1D7CE.. MATHEMATICAL BOLD DIGIT
       "%F0%9D%9F%98", \* U+1D7D8.. MATHEMATICAL DOUBLE-STRUCK DIGIT
       "%F0%9D%9F%A2", \* U+1D7E2.. MATHEMATICAL SANS-SERIF DIGIT
       "%F0%9D%9F%AC", \* U+1D7EC.. MATHEMATICAL SANS-SERIF BOLD DIGIT
       "%F0%9D%9F%B6", \* U+1D7F6.. MATHEMATICAL MONOSPACE DIGIT
       "%F0%9E%85%80", \* U+1E140.. NYIAKENG PUACHUE HMONG DIGIT
       "%F0%9E%8B%B0", \* U+1E2F0.. WANCHO DIGIT
       "%F0%9E%A5%90", \* U+1E950.. ADLAM DIGIT
       "%F0%9F%AF%B0"  \* U+1FBF0.. SEGMENTED DIGIT
    >>

HexDigits == "0123456789ABCDEF"

HexChar(n) == SubSeq(HexDigits, n + 1, n + 1)

HexVal(c) == (CHOOSE k \in 1..16 : HexChar(k - 1) = c) - 1

\* the text %XX of the byte b
ByteText(b) == "%" \o HexChar(b \div 16) \o HexChar(b % 16)

\* the byte that the three characters %XX of t stand for
ByteOf(t) == 16 * HexVal(SubSeq(t, 2, 2)) + HexVal(SubSeq(t, 3, 3))

\* the digit k code points after the digit z
DigitAfter(z, k) ==
    SubSeq(z, 1, Len(z) - 3)
        \o ByteText(ByteOf(SubSeq(z, Len(z) - 2, Len(z))) + k)

\* \d of a str pattern: [0-9] and the digits outside ASCII
Digits ==
    AsciiDigits \cup
    {DigitAfter(ZeroDigits[r], k) : r \in 1..Len(ZeroDigits), k \in 0..9}

\* lengths of the text of a character of 2, 3 and 4 bytes
TokenLens == {6, 9, 12}

\* the characters a byte from 0x80 up is written with
TokenChars == {"%", "A", "B", "C", "D", "E", "F"} \cup AsciiDigits

\* \x0b, \x1f and U+00A0
VerticalTab == ""
UnitSeparator == ""
NoBreakSpace == "%C2%A0"

\* whitespace of bytes.strip(): space, \t, \n, \r, \x0b, \f
Whitespace == {" ", "\t", "\n", "\r", VerticalTab, "\f"}

\* whitespace of str.rstrip(): every character c with c.isspace(): the six
\* above, \x1c to \x1f, U+0085, U+00A0, U+1680, U+2000 to U+200A, U+2028,
\* U+2029, U+202F, U+205F, U+3000
StrWhitespace ==
    Whitespace \cup
    {"", "", "", UnitSeparator,
     "%C2%85", "%C2%A0", "%E1%9A%80", "%E2%80%80", "%E2%80%81", "%E2%80%82",
     "%E2%80%83", "%E2%80%84", "%E2%80%85", "%E2%80%86", "%E2%80%87",
     "%E2%80%88", "%E2%80%89", "%E2%80%8A", "%E2%80%A8", "%E2%80%A9",
     "%E2%80%AF", "%E2%81%9F", "%E3%80%80"}

\* the value int() gives a decimal digit c outside ASCII: its distance from
\* the digit zero of its row
UnicodeDigitVal(c) ==
    CHOOSE v \in 0..9 :
        \E r \in 1..Len(ZeroDigits) :
            /\ Len(ZeroDigits[r]) = Len(c)
            /\ DigitAfter(ZeroDigits[r], v) = c

\* the value int() gives the decimal digit c
DigitVal(c) ==
    CASE c = "0" -> 0 [] c = "1" -> 1 [] c = "2" -> 2 [] c = "3" -> 3
      [] c = "4" -> 4 [] c = "5" -> 5 [] c = "6" -> 6 [] c = "7" -> 7
      [] c = "8" -> 8 [] c = "9" -> 9
      [] OTHER -> UnicodeDigitVal(c)

DigitChar(d) ==
    CASE d = 0 -> "0" [] d = 1 -> "1" [] d = 2 -> "2" [] d = 3 -> "3"
      [] d = 4 -> "4" [] d = 5 -> "5" [] d = 6 -> "6" [] d = 7 -> "7"
      [] d = 8 -> "8" [] d = 9 -> "9"

\* str(x) of a non-negative int
RECURSIVE Str(_)
Str(n) == IF n < 10 THEN DigitChar(n) ELSE Str(n \div 10) \o DigitChar(n % 10)

\* the element of a set of at most one number, 0 when it is empty
AnyOrZero(S) == IF S = {} THEN 0 ELSE CHOOSE n \in S : TRUE

\* length of the text of the decimal digit that starts at index i of s, 0
\* when none starts there
DigitLenAt(s, i) ==
    IF Ch(s, i) \in AsciiDigits THEN 1
    ELSE AnyOrZero({n \in TokenLens : /\ i + n - 1 <= Len(s)
                                     /\ SubSeq(s, i, i + n - 1) \in Digits})

\* int(v[i:]) of a string of decimal digits, continuing from the value acc
\* of the digits before i
RECURSIVE ToIntFrom(_, _, _)
ToIntFrom(v, i, acc) ==
    IF i > Len(v) THEN acc
    ELSE LET n == DigitLenAt(v, i)
         IN  ToIntFrom(v, i + n, acc * 10 + DigitVal(SubSeq(v, i, i + n - 1)))

\* int(v) of a string of decimal digits
ToInt(v) == ToIntFrom(v, 1, 0)

\* sys.get_int_max_str_digits(): the script leaves CPython's default, and
\* int() and str() raise ValueError on more decimal digits than this
IntMaxStrDigits == 4300

\* the number of decimal digits of a string of decimal digits: the ASCII
\* digits that are not the hexadecimal digits of a %XX, and the digits
\* outside ASCII, counted at their first byte
DigitCount(v) ==
    Cardinality({i \in 1..Len(v) :
                    IF Ch(v, i) = "%" THEN DigitLenAt(v, i) > 0
                    ELSE /\ Ch(v, i) \in AsciiDigits
                         /\ Ch(v, i - 1) # "%"
                         /\ Ch(v, i - 2) # "%"})

\* int(v) of a group raises ValueError: on "", and on more digits than
\* IntMaxStrDigits (leading zeros count)
IntRaises(v) ==
    \/ v = ""
    \/ Len(v) > IntMaxStrDigits /\ DigitCount(v) > IntMaxStrDigits

\* try: int(v) except ValueError: 0
IntOrZero(v) == IF IntRaises(v) THEN 0 ELSE ToInt(v)

\* str(x) and f"{x}" of a non-negative int raise ValueError
StrRaises(n) == Len(Str(n)) > IntMaxStrDigits

\* s[i:].startswith(p), 1-based i
StartsWithAt(s, i, p) ==
    /\ i + Len(p) - 1 <= Len(s)
    /\ SubSeq(s, i, i + Len(p) - 1) = p

StartsWith(s, p) == StartsWithAt(s, 1, p)

\* p in s
Contains(s, p) == \E i \in 1..(Len(s) - Len(p) + 1) : StartsWithAt(s, i, p)

\* index just past the longest run, starting at i, of characters in C
SkipIn(s, i, C) ==
    IF i > Len(s) THEN i
    ELSE CHOOSE k \in i..(Len(s) + 1) :
             /\ k = Len(s) + 1 \/ Ch(s, k) \notin C
             /\ \A j \in i..(k - 1) : Ch(s, j) \in C

\* index of the first character in C at or after i, Len(s) + 1 if none
FindIn(s, i, C) ==
    IF i > Len(s) THEN i
    ELSE CHOOSE k \in i..(Len(s) + 1) :
             /\ k = Len(s) + 1 \/ Ch(s, k) \in C
             /\ \A j \in i..(k - 1) : Ch(s, j) \notin C

\* index just past the longest run of ASCII digits starting at i: \d* and
\* \d+ of a bytes pattern
AsciiDigitsEnd(s, i) == SkipIn(s, i, AsciiDigits)

\* character j of s belongs to a decimal digit that starts at or after i
DigitByteFrom(s, i, j) ==
    /\ Ch(s, j) \in TokenChars
    /\ \/ Ch(s, j) \in AsciiDigits
       \/ \E n \in TokenLens : \E o \in 0..(n - 1) :
              /\ j - o >= i
              /\ j - o + n - 1 <= Len(s)
              /\ Ch(s, j - o) = "%"
              /\ SubSeq(s, j - o, j - o + n - 1) \in Digits

\* index just past the longest run of decimal digits starting at i: \d* and
\* \d+ of a str pattern
DigitsEnd(s, i) ==
    IF i > Len(s) THEN i
    ELSE CHOOSE k \in i..(Len(s) + 1) :
             /\ k = Len(s) + 1 \/ ~DigitByteFrom(s, i, k)
             /\ \A j \in i..(k - 1) : DigitByteFrom(s, i, j)

\* index just past the longest run of non-quote characters starting at i ([^"]*)
NotQuoteEnd(s, i) == FindIn(s, i, {"\""})

\* index of the first "\n" at or after i, Len(s) + 1 if there is none
NewlineAt(s, i) == FindIn(s, i, {"\n"})

(***************************************************************************)
(* Updater and the manifest patch.                                         *)
(***************************************************************************)
COMPONENTS == <<"major", "minor", "patch", "rc">>

ComponentNames == {COMPONENTS[i] : i \in 1..Len(COMPONENTS)}

\* COMPONENTS.index(name), 1-based
ComponentIndex(name) == CHOOSE i \in 1..Len(COMPONENTS) : COMPONENTS[i] = name

\* re.MULTILINE `^`: start of the text or just after a newline
AtLineStart(s, i) == i = 1 \/ Ch(s, i - 1) = "\n"

\* VER_PATTERN without re.MULTILINE `^`: the pattern matches anywhere
VerMatch_Unanchored(s, i) ==
    LET a1 == i + Len("version = \"")
        e1 == DigitsEnd(s, a1)
        e2 == DigitsEnd(s, e1 + 1)
        e3 == DigitsEnd(s, e2 + 1)
        a4 == IF StartsWithAt(s, e3, "-rc") THEN e3 + 3 ELSE e3
        e4 == DigitsEnd(s, a4)
        q  == NotQuoteEnd(s, e4)
        ok == /\ StartsWithAt(s, i, "version = \"")
              /\ e1 > a1 /\ Ch(s, e1) = "."
              /\ e2 > e1 + 1 /\ Ch(s, e2) = "."
              /\ e3 > e2 + 1
              /\ StartsWithAt(s, q, "\" # auto")
    IN  IF ok
        THEN [ok |-> TRUE,
              groups |-> <<SubSeq(s, a1, e1 - 1), SubSeq(s, e1 + 1, e2 - 1),
                           SubSeq(s, e2 + 1, e3 - 1), SubSeq(s, a4, e4 - 1)>>,
              stop |-> q + Len("\" # auto")]
        ELSE [ok |-> FALSE, groups |-> <<>>, stop |-> i]

\* VER_PATTERN tried at position i of s.  Every quantifier is greedy and no
\* shorter choice can turn a failure into a success, so the greedy walk is
\* the match.  `stop` is the index just past the match.
VerMatch(s, i) ==
    LET a1 == i + Len("version = \"")
        e1 == DigitsEnd(s, a1)
        e2 == DigitsEnd(s, e1 + 1)
        e3 == DigitsEnd(s, e2 + 1)
        a4 == IF StartsWithAt(s, e3, "-rc") THEN e3 + 3 ELSE e3
        e4 == DigitsEnd(s, a4)
        q  == NotQuoteEnd(s, e4)
        ok == /\ AtLineStart(s, i)
              /\ StartsWithAt(s, i, "version = \"")
              /\ e1 > a1 /\ Ch(s, e1) = "."
              /\ e2 > e1 + 1 /\ Ch(s, e2) = "."
              /\ e3 > e2 + 1
              /\ StartsWithAt(s, q, "\" # auto")
    IN  IF ok
        THEN [ok |-> TRUE,
              groups |-> <<SubSeq(s, a1, e1 - 1), SubSeq(s, e1 + 1, e2 - 1),
                           SubSeq(s, e2 + 1, e3 - 1), SubSeq(s, a4, e4 - 1)>>,
              stop |-> q + Len("\" # auto")]
        ELSE [ok |-> FALSE, groups |-> <<>>, stop |-> i]

\* Bump without the reset loop of the lower-priority components
Bump_NoReset(v, index) ==
    [i \in 1..Len(COMPONENTS) |-> IF i = index THEN v[i] + 1 ELSE v[i]]

\* ver[index] += 1; for i in range(index + 1, len(COMPONENTS)): ver[i] = 0
Bump(v, index) ==
    [i \in 1..Len(COMPONENTS) |->
        IF i < index THEN v[i] ELSE IF i = index THEN v[i] + 1 ELSE 0]

\* the rc suffix written whatever the value of rc
RcStr_Always(v) == "-rc" \o Str(v[4])

\* ".".join(str(x) for x in ver[:3]) + (f"-rc{ver[3]}" if ver[3] > 0 else "")
RcStr(v) == IF v[4] > 0 THEN "-rc" \o Str(v[4]) ELSE ""

FormatVersion(v) ==
    Str(v[1]) \o "." \o Str(v[2]) \o "." \o Str(v[3]) \o RcStr(v)

\* VER_REPLACE % (tuple(ver[:3]) + (rc_str,))
VerReplace(v) == "version = \"" \o FormatVersion(v) \o "\" # auto"

\* Updater.replace(match) with Updater.component = comp; `raises` when the
\* str() of a bumped component (lines 71 and 72) raises ValueError, before
\* Updater.new_version is assigned
Replace(groups, comp) ==
    LET parsed == [i \in 1..4 |-> IntOrZero(groups[i])]
        bumped == Bump(parsed, ComponentIndex(comp))
    IN  [text |-> VerReplace(bumped),
         new_version |-> FormatVersion(bumped),
         old |-> parsed,
         ver |-> bumped,
         raises |-> \/ \E k \in 1..3 : StrRaises(bumped[k])
                    \/ bumped[4] > 0 /\ StrRaises(bumped[4])]

\* the next position at or after i at which the literal head of VER_PATTERN
\* occurs, Len(s) + 1 if there is none: the pattern cannot match in between
NextCandidate(s, i) ==
    IF i > Len(s) THEN i
    ELSE CHOOSE k \in i..(Len(s) + 1) :
             /\ k = Len(s) + 1 \/ StartsWithAt(s, k, "version = \"")
             /\ \A j \in i..(k - 1) : ~StartsWithAt(s, j, "version = \"")

\* the result `rest` of the substitution of the text that follows, behind the
\* text t; once a call of replace has raised there is no text
Prepend(t, rest) ==
    [rest EXCEPT !.text = IF rest.raises THEN "" ELSE t \o rest.text]

RECURSIVE SubFrom(_, _, _, _, _, _)
RECURSIVE SubAfter(_, _, _, _, _, _)
RECURSIVE SubSkip(_, _, _, _, _, _, _)
RECURSIVE SubAt(_, _, _, _, _, _, _)

\* a match that stops at `stop` was replaced with the result r of replace
SubAfter(s, stop, comp, nv, n, r) ==
    IF r.raises
    THEN [text |-> "", new_version |-> nv, ver |-> r.ver, count |-> n + 1,
          raises |-> TRUE]
    ELSE Prepend(r.text, SubFrom(s, stop, comp, r.new_version, r.ver, n + 1))

\* no match at i: the text up to the next candidate j is copied
SubSkip(s, i, j, comp, nv, v, n) ==
    Prepend(SubSeq(s, i, j - 1), SubFrom(s, j, comp, nv, v, n))

\* m is the attempt to match at i
SubAt(s, i, comp, nv, v, n, m) ==
    IF m.ok
    THEN SubAfter(s, m.stop, comp, nv, n, Replace(m.groups, comp))
    ELSE SubSkip(s, i, NextCandidate(s, i + 1), comp, nv, v, n)

\* VER_PATTERN.sub(Updater.replace, s) from position i on; nv and v carry
\* Updater.new_version and the last `ver`, n counts the calls of replace.
\* Text between matches is copied unchanged.  When a call of replace raises,
\* sub raises too: `raises` is set and Updater.new_version stays as it was.
SubFrom(s, i, comp, nv, v, n) ==
    IF i > Len(s)
    THEN [text |-> "", new_version |-> nv, ver |-> v, count |-> n,
          raises |-> FALSE]
    ELSE SubAt(s, i, comp, nv, v, n, VerMatch(s, i))

Sub(s, comp, nv, v) == SubFrom(s, 1, comp, nv, v, 0)

\* Path.read_text(encoding="utf-8"): text mode with universal newlines,
\* "\r\n" and a lone "\r" are read as "\n"
RECURSIVE ReadTextFrom(_, _)
ReadTextFrom(s, i) ==
    IF i > Len(s) THEN ""
    ELSE LET r == FindIn(s, i, {"\r"})
         IN  IF r > Len(s) THEN SubSeq(s, i, Len(s))
             ELSE SubSeq(s, i, r - 1) \o "\n"
                  \o ReadTextFrom(s, IF Ch(s, r + 1) = "\n" THEN r + 2 ELSE r + 1)

ReadText(s) == ReadTextFrom(s, 1)

(***************************************************************************)
(* get_release_notes.                                                      *)
(***************************************************************************)
\* the default of parameter `tag`: Updater.new_version as it is when the
\* `def` statement is executed, i.e. the class attribute's initial value
InitialNewVersion == "0.0.0"

DefaultTag == InitialNewVersion

\* VERSION_LOG.match(line); `stop` is the index just past the match
VersionLogMatch(line) ==
    LET a1 == 1 + Len("## [")
        e1 == AsciiDigitsEnd(line, a1)
        e2 == AsciiDigitsEnd(line, e1 + 1)
        e3 == AsciiDigitsEnd(line, e2 + 1)
        a4 == IF StartsWithAt(line, e3, "-rc") THEN e3 + 3 ELSE e3
        e4 == AsciiDigitsEnd(line, a4)
        ok == /\ StartsWith(line, "## [")
              /\ e1 > a1 /\ Ch(line, e1) = "."
              /\ e2 > e1 + 1 /\ Ch(line, e2) = "."
              /\ e3 > e2 + 1
              /\ Ch(line, e4) = "]"
    IN  IF ok THEN [ok |-> TRUE, stop |-> e4 + 1] ELSE [ok |-> FALSE, stop |-> 1]

\* s.replace(old, new, 1)
ReplaceFirst(s, old, new) ==
    IF Contains(s, old)
    THEN LET i == CHOOSE k \in 1..Len(s) :
                     /\ StartsWithAt(s, k, old)
                     /\ \A j \in 1..(k - 1) : ~StartsWithAt(s, j, old)
         IN  SubSeq(s, 1, i - 1) \o new \o SubSeq(s, i + Len(old), Len(s))
    ELSE s

\* lengths of the text of a whitespace character of 1, 2 and 3 bytes
SpaceLens == {1, 6, 9}

\* title.rstrip() of str: strips the trailing characters c with c.isspace()
RECURSIVE RStrip(_)
RStrip(s) ==
    IF \E n \in SpaceLens : /\ n <= Len(s)
                            /\ SubSeq(s, Len(s) - n + 1, Len(s)) \in StrWhitespace
    THEN RStrip(SubSeq(s, 1,
                       Len(s) - (CHOOSE n \in SpaceLens :
                                    /\ n <= Len(s)
                                    /\ SubSeq(s, Len(s) - n + 1, Len(s))
                                           \in StrWhitespace)))
    ELSE s

\* the right half of bytes.strip()
RECURSIVE BytesRStrip(_)
BytesRStrip(s) ==
    IF Len(s) > 0 /\ Ch(s, Len(s)) \in Whitespace
    THEN BytesRStrip(SubSeq(s, 1, Len(s) - 1)) ELSE s

\* the left half of bytes.strip()
RECURSIVE LStrip(_)
LStrip(s) ==
    IF Len(s) > 0 /\ Ch(s, 1) \in Whitespace
    THEN LStrip(SubSeq(s, 2, Len(s))) ELSE s

\* buf.strip() of bytes
Strip(s) == LStrip(BytesRStrip(s))

\* log.readlines() of a file opened "rb": split after every "\n"
RECURSIVE ReadLines(_)
ReadLines(s) ==
    IF Len(s) = 0 THEN <<>>
    ELSE LET n == NewlineAt(s, 1)
         IN  IF n >= Len(s) THEN <<s>>
             ELSE <<SubSeq(s, 1, n)>> \o ReadLines(SubSeq(s, n + 1, Len(s)))

TagBuf(t) == "[" \o t \o "]"

\* the loop body without the `[unreleased]: ` branch
ScanStep_NoUnreleased(st, line, t) ==
    LET matched == VersionLogMatch(line)
    IN  IF matched.ok
        THEN IF Contains(SubSeq(line, 1, matched.stop - 1), TagBuf(t))
             THEN [st EXCEPT !.title = t \o SubSeq(line, matched.stop, Len(line)),
                             !.found_notes = TRUE]
             ELSE [st EXCEPT !.found_notes = FALSE]
        ELSE IF st.found_notes
        THEN [st EXCEPT !.buf = @ \o line]
        ELSE IF StartsWith(line, TagBuf(t) \o ": ")
        THEN [st EXCEPT !.buf = @ \o ReplaceFirst(line, TagBuf(t), "Full commit diff")]
        ELSE st

\* the loop body entering the block at every release header, whatever its tag
ScanStep_AnyHeader(st, line, t) ==
    LET matched == VersionLogMatch(line)
    IN  IF matched.ok
        THEN [st EXCEPT !.title = t \o SubSeq(line, matched.stop, Len(line)),
                        !.found_notes = TRUE]
        ELSE IF StartsWith(line, "[unreleased]: ") /\ st.found_notes
        THEN [st EXCEPT !.found_notes = FALSE]
        ELSE IF st.found_notes
        THEN [st EXCEPT !.buf = @ \o line]
        ELSE IF StartsWith(line, TagBuf(t) \o ": ")
        THEN [st EXCEPT !.buf = @ \o ReplaceFirst(line, TagBuf(t), "Full commit diff")]
        ELSE st

\* one iteration of `for line in log.readlines()`;
\* st = [found_notes, title, buf]
ScanStep(st, line, t) ==
    LET matched == VersionLogMatch(line)
    IN  IF matched.ok
        THEN IF Contains(SubSeq(line, 1, matched.stop - 1), TagBuf(t))
             THEN [st EXCEPT !.title = t \o SubSeq(line, matched.stop, Len(line)),
                             !.found_notes = TRUE]
             ELSE [st EXCEPT !.found_notes = FALSE]
        ELSE IF StartsWith(line, "[unreleased]: ") /\ st.found_notes
        THEN [st EXCEPT !.found_notes = FALSE]
        ELSE IF st.found_notes
        THEN [st EXCEPT !.buf = @ \o line]
        ELSE IF StartsWith(line, TagBuf(t) \o ": ")
        THEN [st EXCEPT !.buf = @ \o ReplaceFirst(line, TagBuf(t), "Full commit diff")]
        ELSE st

ScanInit == [found_notes |-> FALSE, title |-> "", buf |-> ""]

\* the scan loop over lines k, k+1, ...
RECURSIVE ScanFrom(_, _, _, _)
ScanFrom(st, ls, k, t) ==
    IF k > Len(ls) THEN st ELSE ScanFrom(ScanStep(st, ls[k], t), ls, k + 1, t)

\* return title.rstrip(), buf.strip()
NotesResult(st) == [title |-> RStrip(st.title), notes |-> Strip(st.buf)]

\* get_release_notes(t) on a CHANGELOG.md with content `log`
GetReleaseNotes(log, t) == NotesResult(ScanFrom(ScanInit, ReadLines(log), 1, t))

(***************************************************************************)
(* Inputs.                                                                 *)
(***************************************************************************)
\* all sequences of 1..n elements of S, concatenated
RECURSIVE Concats(_, _)
Concats(S, n) ==
    IF n = 0 THEN {""}
    ELSE LET shorter == Concats(S, n - 1)
         IN  shorter \cup {a \o b : a \in shorter, b \in S}

MarkedLine(vtext) == "version = \"" \o vtext \o "\" # auto\n"

\* lines of a manifest that are not a marked version declaration
OtherLines ==
    { "[package]\n",
      "version = \"1.2.3\"\n",
      "  version = \"1.2.3\" # auto\n",
      "dep = { version = \"1.2.3\" } # auto\n" }

\* manifests of the pipeline
ManifestLines ==
    OtherLines \cup
    { MarkedLine("1.2.3"), MarkedLine("1.2.3-rc1"), MarkedLine("0.9.9-rc"),
      MarkedLine("1.2"),
      "version = \"2.0.1+b\" # auto # keep\r\n" }

\* the digit k written in ARABIC-INDIC DIGITs and in FULLWIDTH DIGITs
ArabicIndic(k) == DigitAfter(ZeroDigits[1], k)
Fullwidth(k) == DigitAfter(ZeroDigits[36], k)

Twice(s) == s \o s

\* s repeated n times
RECURSIVE Repeat(_, _)
Repeat(s, n) ==
    IF n = 0 THEN ""
    ELSE Twice(Repeat(s, n \div 2)) \o (IF n % 2 = 1 THEN s ELSE "")

\* versions with a component of more digits than int() converts
LongVersionTexts ==
    { Repeat("1", IntMaxStrDigits + 1) \o ".2.3",
      "1.2.3-rc" \o Repeat("0", IntMaxStrDigits) \o "7" }

\* versions written with decimal digits outside ASCII
UnicodeVersionTexts ==
    { ArabicIndic(1) \o "." \o ArabicIndic(2) \o "." \o ArabicIndic(3),
      "1.2.3-rc" \o ArabicIndic(4),
      Fullwidth(1) \o "." \o Fullwidth(0) \o ".9-rc" \o Fullwidth(1) }

Manifests ==
    Concats(ManifestLines, MaxManifestLines)
    \cup {MarkedLine(v) : v \in UnicodeVersionTexts \cup LongVersionTexts}

\* manifests of the patch alone: every version up to MaxComp, written the
\* way the script writes it, and some written by hand
VersionTuples ==
    {<<a, b, c, r>> : a \in 0..MaxComp, b \in 0..MaxComp,
                      c \in 0..MaxComp, r \in 0..MaxComp}

VersionTexts ==
    {FormatVersion(v) : v \in VersionTuples} \cup
    {"1.2.3", "1.2.3-rc1", "9.9.99-rc9", "1.2.3-rc", "1.2.3-beta4", "01.02.03",
     "1.2.3-rc1+b5", "1.2"} \cup
    UnicodeVersionTexts

PatchContexts ==
    {"", "[package]\n", "version = \"1.2.3\"\n  version = \"1.2.3\" # auto\n"}

PatchDocs ==
    {pre \o MarkedLine(v) \o post :
        pre \in PatchContexts, v \in VersionTexts, post \in PatchContexts}
    \cup {MarkedLine("1.2.3") \o "[package]\n" \o MarkedLine("0.1.0-rc2")}
    \cup {pre \o MarkedLine(v) : pre \in {"", "[package]\n"},
                                 v \in LongVersionTexts}
    \cup PatchContexts

\* changelogs git-cliff may leave behind when run with --tag t
RefLine(t) == "[" \o t \o "]: https://x/compare/a..b\n"

CliffLogs(t) ==
    { "## [" \o t \o "] - 2024-01-01\n- fix\n## [0.0.0] first\n- init\n"
         \o RefLine(t) \o RefLine("0.0.0"),
      "## [" \o t \o "] - 2024-01-01\n- fix\n" \o RefLine(t),
      "## [" \o t \o "] - 2024-01-01\n- fix\n## [0.1.0] older\n- old\n"
         \o RefLine(t) \o RefLine("0.0.0"),
      "## [0.0.0] first\n- init\n",
      "## [0.0.0] first" \o UnitSeparator \o VerticalTab \o "\n- init"
         \o NoBreakSpace \o VerticalTab \o "\n",
      "# Changelog\n" }

OldChangelog == "## [0.0.0] first\n- init\n"

\* changelog lines of the extractor alone
LogLines ==
    { "## [1.0.0] foo\n",
      "## [0.9.0] bar\n",
      "- fix\n",
      "\n",
      "## [unreleased]\n",
      "[unreleased]: https://x/compare/b..HEAD\n",
      "[1.0.0]: https://x/compare/a..b\n",
      "[0.9.0]: https://x/compare/9..a\n" }

\* changelogs with whitespace other than space and newline at the end of
\* the title and at the ends of the block
WhitespaceLogs ==
    { "## [" \o t \o "] foo" \o a \o b \o "\n" \o b \o "- fix" \o a \o b \o "\n" :
        t \in {"1.0.0", "0.9.0"},
        a \in {"", UnitSeparator, NoBreakSpace},
        b \in {" ", VerticalTab, "\f"} }

Logs == Concats(LogLines, MaxLogLines) \cup WhitespaceLogs

Tags == {"1.0.0", "0.9.0"}

(***************************************************************************)
(* main(): the release pipeline.                                           *)
(***************************************************************************)
NoRet == [title |-> "", notes |-> ""]

\* main of replace_version_spec.py has not returned
NoExit == -1

NotesIdle ==
    /\ tag = DefaultTag /\ lines = <<>> /\ ln = 0
    /\ found_notes = FALSE /\ title = "" /\ buf = "" /\ ret = NoRet

\* state after parser.parse_args(namespace=Updater)
Init ==
    /\ pc = "Idle"
    /\ err = "none"
    /\ component \in ComponentNames
    /\ new_version = InitialNewVersion
    /\ ver = <<>>
    /\ cargo_exists \in BOOLEAN
    /\ cargo_file \in (IF cargo_exists THEN Manifests ELSE {""})
    /\ doc = ""
    /\ changelog = OldChangelog
    /\ calls = <<>>
    /\ NotesIdle
    /\ exit_code = NoExit

notesVars == <<tag, lines, ln, found_notes, title, buf, ret>>

\* what bump_version.py never touches
rvsVars == <<cargo_exists, exit_code>>

\* doc = cargo_path.read_text(encoding="utf-8"); open() raises
\* FileNotFoundError when there is no Cargo.toml
ReadManifest ==
    /\ pc = "Idle" /\ err = "none"
    /\ \/ /\ cargo_exists
          /\ doc' = ReadText(cargo_file)
          /\ pc' = "Read"
          /\ UNCHANGED err
       \/ /\ ~cargo_exists
          /\ err' = "FileNotFoundError"
          /\ UNCHANGED <<pc, doc>>
    /\ UNCHANGED <<component, new_version, ver, cargo_file, changelog,
                   calls, notesVars, rvsVars>>

\* doc = VER_PATTERN.sub(Updater.replace, doc); a ValueError of replace is
\* not caught and ends the run at this line
Substitute ==
    /\ pc = "Read" /\ err = "none"
    /\ LET r == Sub(doc, component, new_version, ver)
       IN  /\ doc' = IF r.raises THEN doc ELSE r.text
           /\ new_version' = r.new_version
           /\ ver' = r.ver
           /\ err' = IF r.raises THEN "ValueError" ELSE err
           /\ pc' = IF r.raises THEN pc ELSE "Substituted"
    /\ UNCHANGED <<component, cargo_file, changelog, calls, notesVars,
                   rvsVars>>

\* cargo_path.write_text(doc, encoding="utf-8", newline="\n")
WriteManifest ==
    /\ pc = "Substituted" /\ err = "none"
    /\ cargo_file' = doc
    /\ pc' = "VersionBumped"
    /\ UNCHANGED <<err, component, new_version, ver, doc, changelog, calls,
                   notesVars, rvsVars>>

\* subprocess.run(argv, check=True) at position `at`: the command is invoked
\* and either succeeds (go to `next`) or raises CalledProcessError
RunOk(at, argv, next) ==
    /\ pc = at /\ err = "none"
    /\ calls' = Append(calls, argv)
    /\ pc' = next
    /\ UNCHANGED err

\* a failed command that is not fatal: the step can be taken again
RunFail_Retry(at, argv, exc) ==
    /\ pc = at /\ err = "none"
    /\ calls' = Append(calls, argv)
    /\ UNCHANGED <<pc, err>>

RunFail(at, argv, exc) ==
    /\ pc = at /\ err = "none"
    /\ calls' = Append(calls, argv)
    /\ err' = exc
    /\ UNCHANGED pc

Run(at, argv, next) ==
    \/ RunOk(at, argv, next)
    \/ RunFail(at, argv, "CalledProcessError")

pipeFrame == <<component, new_version, ver, cargo_file, doc, notesVars,
               rvsVars>>

CargoUpdate ==
    /\ Run("VersionBumped", <<"cargo", "update", "--workspace">>, "CargoUpdated")
    /\ UNCHANGED <<pipeFrame, changelog>>

YarnVersion ==
    /\ Run("CargoUpdated",
           <<"yarn", "version", "--new-version", new_version,
             "--no-git-tag-version">>,
           "YarnVersioned")
    /\ UNCHANGED <<pipeFrame, changelog>>

NapiVersion ==
    /\ Run("YarnVersioned", <<"napi", "version">>, "DependentFilesUpdated")
    /\ UNCHANGED <<pipeFrame, changelog>>

\* git cliff rewrites CHANGELOG.md; what it writes is its own business
GitCliff ==
    LET argv == <<"git", "cliff", "--tag", new_version>>
    IN  /\ \/ /\ RunOk("DependentFilesUpdated", argv, "ChangelogRegenerated")
              /\ changelog' \in CliffLogs(new_version)
           \/ /\ RunFail("DependentFilesUpdated", argv, "CalledProcessError")
              /\ UNCHANGED changelog
        /\ UNCHANGED pipeFrame

\* staging placed before the changelog regeneration
GitAdd_BeforeCliff ==
    /\ \/ Run("DependentFilesUpdated", <<"git", "add", "--all">>, "Staged")
       \/ Run("ChangelogRegenerated", <<"git", "add", "--all">>, "Staged")
    /\ UNCHANGED <<pipeFrame, changelog>>

GitAdd ==
    /\ Run("ChangelogRegenerated", <<"git", "add", "--all">>, "Staged")
    /\ UNCHANGED <<pipeFrame, changelog>>

\* the release tag without its prefix
ReleaseTag_NoPrefix == new_version

\* tag = "v" + Updater.new_version
ReleaseTag == "v" \o new_version

GitCommit ==
    /\ Run("Staged",
           <<"git", "commit", "-m", "Bump version to " \o ReleaseTag>>,
           "Committed")
    /\ UNCHANGED <<pipeFrame, changelog>>

\* try: git push  except CalledProcessError: raise RuntimeError(...)
PushError == "RuntimeError: Failed to push commit for version bump"

\* git push without the try/except wrapper
GitPush_Unwrapped ==
    /\ Run("Committed", <<"git", "push">>, "Pushed")
    /\ UNCHANGED <<pipeFrame, changelog>>

GitPush ==
    /\ \/ RunOk("Committed", <<"git", "push">>, "Pushed")
       \/ RunFail("Committed", <<"git", "push">>, PushError)
    /\ UNCHANGED <<pipeFrame, changelog>>

\* get_release_notes raising when it found no header of the tag
ExtractNotes_AbortOnEmpty ==
    /\ pc = "Pushed" /\ err = "none"
    /\ LET ls == ReadLines(changelog)
           st == ScanFrom(ScanInit, ls, 1, DefaultTag)
       IN  /\ tag' = DefaultTag
           /\ lines' = ls
           /\ ln' = Len(ls)
           /\ found_notes' = st.found_notes
           /\ title' = st.title
           /\ buf' = st.buf
           /\ ret' = NotesResult(st)
           /\ IF st.title = ""
              THEN err' = "NotesNotFound" /\ pc' = pc
              ELSE err' = err /\ pc' = "NotesExtracted"
    /\ UNCHANGED <<component, new_version, ver, cargo_file, doc,
                   changelog, calls, rvsVars>>

\* title, notes = get_release_notes()
ExtractNotes ==
    /\ pc = "Pushed" /\ err = "none"
    /\ LET ls == ReadLines(changelog)
           st == ScanFrom(ScanInit, ls, 1, DefaultTag)
       IN  /\ tag' = DefaultTag
           /\ lines' = ls
           /\ ln' = Len(ls)
           /\ found_notes' = st.found_notes
           /\ title' = st.title
           /\ buf' = st.buf
           /\ ret' = NotesResult(st)
    /\ pc' = "NotesExtracted"
    /\ UNCHANGED <<err, component, new_version, ver, cargo_file, doc,
                   changelog, calls, rvsVars>>

\* the release command without the pre-release flag
GhCmd_NoPrerelease ==
    <<"gh", "release", "create", ReleaseTag, "--title", ret.title,
      "--notes", ret.notes>>

\* gh release create tag --title title --notes notes [--prerelease]
GhCmd ==
    <<"gh", "release", "create", ReleaseTag, "--title", ret.title,
      "--notes", ret.notes>>
    \o (IF component = "rc" THEN <<"--prerelease">> ELSE <<>>)

GhRelease ==
    /\ Run("NotesExtracted", GhCmd, "Done")
    /\ UNCHANGED <<pipeFrame, changelog>>

Next ==
    \/ ReadManifest
    \/ Substitute
    \/ WriteManifest
    \/ CargoUpdate
    \/ YarnVersion
    \/ NapiVersion
    \/ GitCliff
    \/ GitAdd
    \/ GitCommit
    \/ GitPush
    \/ ExtractNotes
    \/ GhRelease

Spec == Init /\ [][Next]_vars

(***************************************************************************)
(* The manifest patch alone: read the text, substitute.                    *)
(***************************************************************************)
InitPatch ==
    /\ pc = "Idle"
    /\ err = "none"
    /\ component \in ComponentNames
    /\ new_version = InitialNewVersion
    /\ ver = <<>>
    /\ cargo_exists \in BOOLEAN
    /\ cargo_file \in (IF cargo_exists THEN PatchDocs ELSE {""})
    /\ doc = ""
    /\ changelog = OldChangelog
    /\ calls = <<>>
    /\ NotesIdle
    /\ exit_code = NoExit

NextPatch ==
    \/ ReadManifest
    \/ Substitute

SpecPatch == InitPatch /\ [][NextPatch]_vars

(***************************************************************************)
(* get_release_notes alone, one loop iteration per step.                   *)
(***************************************************************************)
InitNotes ==
    /\ pc = "NotesCall"
    /\ err = "none"
    /\ component = "patch"
    /\ new_version = InitialNewVersion
    /\ ver = <<>>
    /\ cargo_exists = FALSE
    /\ cargo_file = ""
    /\ doc = ""
    /\ changelog \in Logs
    /\ calls = <<>>
    /\ tag \in Tags
    /\ lines = <<>> /\ ln = 0
    /\ found_notes = FALSE /\ title = "" /\ buf = "" /\ ret = NoRet
    /\ exit_code = NoExit

pipeVars == <<err, component, new_version, ver, cargo_file, doc, changelog,
              calls, rvsVars>>

\* title, buf = ("", b""); open; found_notes = False; log.readlines()
NotesOpen ==
    /\ pc = "NotesCall"
    /\ lines' = ReadLines(changelog)
    /\ ln' = 0
    /\ found_notes' = FALSE /\ title' = "" /\ buf' = ""
    /\ pc' = "NotesScan"
    /\ UNCHANGED <<pipeVars, tag, ret>>

\* one iteration of the for loop
NotesLine ==
    /\ pc = "NotesScan" /\ ln < Len(lines)
    /\ LET st == ScanStep([found_notes |-> found_notes, title |-> title,
                           buf |-> buf], lines[ln + 1], tag)
       IN  /\ found_notes' = st.found_notes
           /\ title' = st.title
           /\ buf' = st.buf
    /\ ln' = ln + 1
    /\ UNCHANGED <<pipeVars, pc, tag, lines, ret>>

\* return title.rstrip(), buf.strip()
NotesReturn ==
    /\ pc = "NotesScan" /\ ln = Len(lines)
    /\ ret' = NotesResult([found_notes |-> found_notes, title |-> title,
                           buf |-> buf])
    /\ pc' = "NotesDone"
    /\ UNCHANGED <<pipeVars, tag, lines, ln, found_notes, title, buf>>

NextNotes ==
    \/ NotesOpen
    \/ NotesLine
    \/ NotesReturn

SpecNotes == InitNotes /\ [][NextNotes]_vars

(***************************************************************************)
(* replace_version_spec.py: main.                                          *)
(***************************************************************************)
MaxRvsLines == 3

\* version_pattern % v
VersionSpec(v) == "version = \"" \o v \o "\" # auto"

\* old_version = version_pattern % "2.0.0"
OldVersion == VersionSpec("2.0.0")

\* index of the first occurrence of p in s at or after i, Len(s) + 1 if none
IndexFrom(s, p, i) ==
    IF \E k \in i..Len(s) : StartsWithAt(s, k, p)
    THEN CHOOSE k \in i..Len(s) :
             /\ StartsWithAt(s, k, p)
             /\ \A j \in i..(k - 1) : ~StartsWithAt(s, j, p)
    ELSE Len(s) + 1

\* str.replace limited to the first occurrence
StrReplace_First(s, old, new) == ReplaceFirst(s, old, new)

\* s[i:].replace(old, new) for a non-empty old: the occurrences are taken
\* left to right, without overlap, and the replacement is not scanned again
RECURSIVE StrReplaceFrom(_, _, _, _)
StrReplaceFrom(s, old, new, i) ==
    LET k == IndexFrom(s, old, i)
    IN  IF k > Len(s) THEN SubSeq(s, i, Len(s))
        ELSE SubSeq(s, i, k - 1) \o new
             \o StrReplaceFrom(s, old, new, k + Len(old))

\* s.replace(old, new)
StrReplace(s, old, new) == StrReplaceFrom(s, old, new, 1)

\* the lines Cargo.toml is made of
RvsLines ==
    { "[workspace.package]\n",
      "version = \"2.0.0\" # auto\n",
      "version = \"2.0.0\" # auto\r\n",
      "  version = \"2.0.0\" # auto # x\n",
      "version = \"2.0.1\" # auto\n",
      "version = \"2.0.0\"\n" }

RvsDocs == Concats(RvsLines, MaxRvsLines)

\* values of --new-version
RvsArgs == {"2.1.0-rc1", "2.0.0"}

\* state after parser.parse_args(namespace=Args()); without -n parse_args
\* leaves the interpreter before main does anything
InitRvs ==
    /\ pc = "RvsParsed"
    /\ err = "none"
    /\ component = "patch"
    /\ new_version \in RvsArgs
    /\ ver = <<>>
    /\ cargo_exists \in BOOLEAN
    /\ cargo_file \in (IF cargo_exists THEN RvsDocs ELSE {""})
    /\ doc = ""
    /\ changelog = ""
    /\ calls = <<>>
    /\ NotesIdle
    /\ exit_code = NoExit

rvsFrame == <<err, component, new_version, ver, cargo_exists, changelog,
              calls, notesVars>>

\* if not cargo_path.exists(): return 1
RvsCheckExists ==
    /\ pc = "RvsParsed"
    /\ IF cargo_exists
       THEN pc' = "RvsExists" /\ UNCHANGED exit_code
       ELSE pc' = "RvsReturned" /\ exit_code' = 1
    /\ UNCHANGED <<rvsFrame, cargo_file, doc>>

\* doc = cargo_path.read_text(encoding="utf-8")
RvsRead ==
    /\ pc = "RvsExists"
    /\ doc' = ReadText(cargo_file)
    /\ pc' = "RvsRead"
    /\ UNCHANGED <<rvsFrame, cargo_file, exit_code>>

\* if old_version not in doc: return 1
RvsCheckVersion ==
    /\ pc = "RvsRead"
    /\ IF Contains(doc, OldVersion)
       THEN pc' = "RvsFound" /\ UNCHANGED exit_code
       ELSE pc' = "RvsReturned" /\ exit_code' = 1
    /\ UNCHANGED <<rvsFrame, cargo_file, doc>>

\* doc = doc.replace(old_version, version_pattern % args.new_version)
RvsReplace ==
    /\ pc = "RvsFound"
    /\ doc' = StrReplace(doc, OldVersion, VersionSpec(new_version))
    /\ pc' = "RvsReplaced"
    /\ UNCHANGED <<rvsFrame, cargo_file, exit_code>>

\* cargo_path.write_text(doc, encoding="utf-8"); return 0
RvsWrite ==
    /\ pc = "RvsReplaced"
    /\ cargo_file' = doc
    /\ exit_code' = 0
    /\ pc' = "RvsReturned"
    /\ UNCHANGED <<rvsFrame, doc>>

NextRvs ==
    \/ RvsCheckExists
    \/ RvsRead
    \/ RvsCheckVersion
    \/ RvsReplace
    \/ RvsWrite

SpecRvs == InitRvs /\ [][NextRvs]_vars

(***************************************************************************)
(* Properties.                                                             *)
(***************************************************************************)
\* the manifest text as main reads it
ManifestText == ReadText(cargo_file)

\* positions of the manifest text at which a marked version line starts
MatchStarts(s) ==
    {i \in 1..Len(s) : StartsWithAt(s, i, "version = \"") /\ VerMatch(s, i).ok}

MarkedCount == Cardinality(MatchStarts(ManifestText))

\* the version the last marked line of the manifest text declares
LastDeclared ==
    LET S == MatchStarts(ManifestText)
        i == CHOOSE k \in S : \A j \in S : j <= k
        g == VerMatch(ManifestText, i).groups
    IN  [k \in 1..4 |-> IntOrZero(g[k])]

NotesReached == pc \in {"NotesExtracted", "Done"}

\* C1: in every run that reaches note extraction, the tag get_release_notes
\* looks up in the changelog is the new version the manifest bump of the same
\* run produced (Updater.new_version after Updater.replace).
C1_LookupTagIsNewVersion == NotesReached => tag = new_version

\* C2: a manifest without a marked version line makes the patch fail: the
\* run never gets past the substitution, the manifest is not rewritten and
\* no external tool is invoked.
C2_NoMarkedLineAborts ==
    MarkedCount = 0 => (pc \in {"Idle", "Read"} /\ calls = <<>>)

\* C3: after a bump the target component is one greater, every later
\* component is 0 and every earlier component is unchanged; bumping major,
\* minor or patch leaves rc = 0.
C3_BumpCascade ==
    (pc = "Substituted" /\ MarkedCount > 0) =>
        LET old == LastDeclared
            idx == ComponentIndex(component)
        IN  /\ Len(ver) = 4
            /\ ver[idx] = old[idx] + 1
            /\ \A i \in 1..4 : i > idx => ver[i] = 0
            /\ \A i \in 1..4 : i < idx => ver[i] = old[i]
            /\ component # "rc" => ver[4] = 0

\* a minor bump of 1.2.3-rc1: patch and rc are reset, major is kept
C3_Witness ==
    /\ pc = "Substituted"
    /\ component = "minor"
    /\ cargo_file = MarkedLine("1.2.3-rc1")
    /\ ver = <<1, 3, 0, 0>>

\* the scan loop is about to consume a line
Scanning == pc = "NotesScan" /\ ln < Len(lines)

NextLine == lines[ln + 1]

\* a diff-reference line `[<tag>]: <url>` of the target tag
IsTargetRef(line) == StartsWith(line, "[" \o tag \o "]: ")

\* that line with its label rewritten
Rewritten(line) ==
    "Full commit diff" \o SubSeq(line, Len(tag) + 3, Len(line))

\* a release-header line that carries the target tag
IsTargetHeader(line) ==
    /\ VersionLogMatch(line).ok
    /\ StartsWith(line, "## [" \o tag \o "]")

ExampleLog ==
    "## [1.0.0] foo\n- fix\n## [unreleased]\n[1.0.0]: https://x/compare/a..b\n"

ExampleLogRef ==
    "## [1.0.0] foo\n- fix\n[unreleased]: https://x/compare/b..HEAD\n"
    \o "[1.0.0]: https://x/compare/a..b\n"

ExampleNotes ==
    [title |-> "1.0.0 foo",
     notes |-> "- fix\nFull commit diff: https://x/compare/a..b"]

\* C4 as stated: inside the target block an `## [unreleased]` header line ends
\* the block, that line is not appended, and the example log with the
\* `## [unreleased]` header gives title "1.0.0 foo" and the body lines plus
\* the rewritten diff line.
C4_UnreleasedHeaderEndsBlock ==
    [][ /\ (Scanning /\ found_notes /\ StartsWith(NextLine, "## [unreleased]"))
            => (found_notes' = FALSE /\ buf' = buf)
        /\ (pc' = "NotesDone" /\ changelog = ExampleLog /\ tag = "1.0.0")
            => ret' = ExampleNotes ]_vars

\* C4 amended: inside the target block a line starting with `[unreleased]: `
\* ends the block and is not appended, while an `## [unreleased]` line is
\* appended like any body line; outside the block only the target's
\* diff-reference line adds to the body; the example log with an
\* `[unreleased]: ` line gives title "1.0.0 foo" and the body lines plus the
\* rewritten diff line.
C4_UnreleasedRefEndsBlock ==
    [][ /\ (Scanning /\ found_notes /\ StartsWith(NextLine, "[unreleased]: "))
            => (found_notes' = FALSE /\ buf' = buf)
        /\ (Scanning /\ found_notes /\ StartsWith(NextLine, "## [unreleased]"))
            => (found_notes' = TRUE /\ buf' = buf \o NextLine)
        /\ (Scanning /\ ~found_notes /\ ~IsTargetRef(NextLine))
            => buf' = buf
        /\ (pc' = "NotesDone" /\ changelog = ExampleLogRef /\ tag = "1.0.0")
            => ret' = ExampleNotes ]_vars

\* the scan has left the target block at the `[unreleased]: ` line and has
\* then rewritten the diff-reference line
C4_Witness ==
    /\ pc = "NotesDone"
    /\ changelog = ExampleLogRef
    /\ tag = "1.0.0"
    /\ found_notes = FALSE
    /\ ret = ExampleNotes

EndsWith(s, p) ==
    /\ Len(p) <= Len(s)
    /\ SubSeq(s, Len(s) - Len(p) + 1, Len(s)) = p

\* C5: whenever the changelog has a diff-reference line of the target tag,
\* the returned body contains that line rewritten to `Full commit diff: <url>`,
\* after all captured block lines, and does not contain it with its `[<tag>]`
\* label.
C5_DiffLineAlwaysRewritten ==
    pc = "NotesDone" =>
        \A k \in 1..Len(lines) :
            IsTargetRef(lines[k]) =>
                /\ Contains(ret.notes, BytesRStrip(Rewritten(lines[k])))
                /\ ~Contains(ret.notes, BytesRStrip(lines[k]))
                /\ (\A j \in (k + 1)..Len(lines) : ~IsTargetRef(lines[j]))
                      => EndsWith(ret.notes, BytesRStrip(Rewritten(lines[k])))

\* the rewritten diff-reference lines of the target tag, in order
RECURSIVE RewrittenRefs(_, _)
RewrittenRefs(ls, k) ==
    IF k > Len(ls) THEN ""
    ELSE (IF IsTargetRef(ls[k]) THEN Rewritten(ls[k]) ELSE "")
         \o RewrittenRefs(ls, k + 1)

NoTargetHeader == \A k \in 1..Len(lines) : ~IsTargetHeader(lines[k])

\* C6 as stated: without a header line of the target tag the result is an
\* empty title and an empty body, also when a diff-reference line of the tag
\* is present.
C6_NoHeaderEmptyResult ==
    (pc = "NotesDone" /\ NoTargetHeader) => ret = [title |-> "", notes |-> ""]

\* C6 amended: without a header line of the target tag the title is empty and
\* the body holds nothing but the rewritten diff-reference lines of the tag:
\* it is empty when the changelog has no such line.
C6_NoHeaderOnlyDiffLine ==
    (pc = "NotesDone" /\ NoTargetHeader) =>
        /\ ret.title = ""
        /\ ret.notes = Strip(RewrittenRefs(lines, 1))
        /\ (\A k \in 1..Len(lines) : ~IsTargetRef(lines[k])) => ret.notes = ""

\* a changelog with another release, and the diff line of the target only
C6_Witness ==
    /\ pc = "NotesDone"
    /\ tag = "1.0.0"
    /\ changelog = "## [0.9.0] bar\n- fix\n\n[1.0.0]: https://x/compare/a..b\n"
    /\ NoTargetHeader
    /\ ret = [title |-> "", notes |-> "Full commit diff: https://x/compare/a..b"]

Last(q) == q[Len(q)]

\* C7: a push that fails after a successful commit raises the push-specific
\* error, not the generic tool failure, and leaves the run at Committed: the
\* notes are not extracted and no release is created.
C7_PushFailureStopsAtCommitted ==
    /\ PushError # "CalledProcessError"
    /\ (err # "none" /\ calls # <<>> /\ Last(calls) = <<"git", "push">>)
          => err = PushError
    /\ err = PushError =>
          /\ pc = "Committed"
          /\ Len(calls) = 7
          /\ calls[6][1] = "git" /\ calls[6][2] = "commit"
          /\ Last(calls) = <<"git", "push">>
          /\ lines = <<>> /\ ret = NoRet
          /\ \A k \in 1..Len(calls) : calls[k][1] # "gh"

C7_Witness ==
    /\ err = PushError
    /\ pc = "Committed"
    /\ Last(calls) = <<"git", "push">>

\* the version the script is expected to write for a declared version t
ExpectedBump(t, comp) ==
    CASE comp = "major" -> <<t[1] + 1, 0, 0, 0>>
      [] comp = "minor" -> <<t[1], t[2] + 1, 0, 0>>
      [] comp = "patch" -> <<t[1], t[2], t[3] + 1, 0>>
      [] comp = "rc"    -> <<t[1], t[2], t[3], t[4] + 1>>

\* version texts VER_PATTERN accepts
WellFormedTexts == (VersionTexts \cup LongVersionTexts) \ {"1.2"}

\* C8: with exactly one marked version line the patch replaces that
\* declaration by `version = "<bumped version>" # auto` and leaves the text
\* before and after it as it was, other version-shaped strings included.
C8_OnlyMarkedLineChanges ==
    pc = "Substituted" =>
        /\ \A pre \in PatchContexts, post \in PatchContexts :
              (StartsWith(cargo_file, pre) /\ EndsWith(cargo_file, post)) =>
                  /\ \A v \in WellFormedTexts :
                        cargo_file = pre \o MarkedLine(v) \o post
                            => doc = pre \o MarkedLine(new_version) \o post
                  /\ \A t \in VersionTuples :
                        cargo_file = pre \o MarkedLine(FormatVersion(t)) \o post
                            => new_version
                                  = FormatVersion(ExpectedBump(t, component))
        /\ (cargo_file = MarkedLine("1.2.3") /\ component = "patch")
              => doc = MarkedLine("1.2.4")
        /\ (cargo_file = MarkedLine("1.2.3-rc1") /\ component = "major")
              => doc = MarkedLine("2.0.0")

\* a marked line between an unmarked and an indented version line
C8_Witness ==
    /\ pc = "Substituted"
    /\ component = "patch"
    /\ cargo_file = "version = \"1.2.3\"\n  version = \"1.2.3\" # auto\n"
                    \o MarkedLine("1.2.3")
                    \o "version = \"1.2.3\"\n  version = \"1.2.3\" # auto\n"
    /\ doc = "version = \"1.2.3\"\n  version = \"1.2.3\" # auto\n"
             \o MarkedLine("1.2.4")
             \o "version = \"1.2.3\"\n  version = \"1.2.3\" # auto\n"

\* C9: a manifest with two or more marked version lines is rejected: the run
\* never gets past the substitution, none of the lines is rewritten and no
\* external tool is invoked.
C9_AmbiguousManifestRejected ==
    MarkedCount >= 2 =>
        /\ pc \in {"Idle", "Read"}
        /\ doc \in {"", ManifestText}
        /\ calls = <<>>

\* the external commands of the pipeline, in program order
StepOrder ==
    << <<"cargo", "update">>, <<"yarn", "version">>, <<"napi", "version">>,
       <<"git", "cliff">>, <<"git", "add">>, <<"git", "commit">>,
       <<"git", "push">>, <<"gh", "release">> >>

\* commands that have succeeded when the run is at position p
CallsAt(p) ==
    CASE p \in {"Idle", "Read", "Substituted", "VersionBumped"} -> 0
      [] p = "CargoUpdated" -> 1
      [] p = "YarnVersioned" -> 2
      [] p = "DependentFilesUpdated" -> 3
      [] p = "ChangelogRegenerated" -> 4
      [] p = "Staged" -> 5
      [] p = "Committed" -> 6
      [] p \in {"Pushed", "NotesExtracted"} -> 7
      [] p = "Done" -> 8

\* C10: the steps happen in one fixed order, none skipped or repeated, each
\* only after the previous one succeeded: manifest bump, dependent-file
\* updates, changelog regeneration, commit, push, tag and release.
C10_FixedStepOrder ==
    /\ Len(calls) = CallsAt(pc)
                    + (IF err \in {"none", "FileNotFoundError", "ValueError"}
                       THEN 0 ELSE 1)
    /\ \A k \in 1..Len(calls) :
          k <= Len(StepOrder) /\ <<calls[k][1], calls[k][2]>> = StepOrder[k]
    /\ calls # <<>> => cargo_file = doc
    /\ lines # <<>> => Len(calls) >= 7

C10_Witness ==
    /\ pc = "Done"
    /\ err = "none"
    /\ Len(calls) = 8
    /\ Last(calls)[1] = "gh"

\* C11: a failing external tool is fatal at that point: the failed command is
\* invoked once, nothing runs after it, and what the completed steps did (the
\* rewritten manifest, the regenerated changelog, the position reached) stays
\* as it is.
C11_ToolFailureIsFatal ==
    [][ /\ err = "none"
        /\ (calls' # calls /\ pc' = pc) => err' # "none"
        /\ err' \in {"CalledProcessError", PushError} =>
              /\ calls' = Append(calls, Last(calls'))
              /\ pc' = pc
              /\ cargo_file' = cargo_file /\ cargo_file' = doc'
              /\ changelog' = changelog
              /\ new_version' = new_version ]_vars

\* git commit fails after the manifest was rewritten and the changelog
\* regenerated
C11_Witness ==
    /\ err = "CalledProcessError"
    /\ pc = "Staged"
    /\ Last(calls)[2] = "commit"
    /\ cargo_file = MarkedLine("1.2.4")
    /\ changelog # OldChangelog

\* the version a match of VER_PATTERN at position i of s parses to
ParsedAt(s, i) == [k \in 1..4 |-> IntOrZero(VerMatch(s, i).groups[k])]

\* C12: the text the script writes for a version parses back to that version
\* and formats to the same text again, and it carries the `-rcN` suffix
\* exactly when rc > 0: with rc = 0 it is plain MAJOR.MINOR.PATCH.
C12_FormatParseRoundTrip ==
    (pc = "Substituted" /\ MarkedCount > 0) =>
        LET S == MatchStarts(doc)
            last == CHOOSE k \in S : \A j \in S : j <= k
            plain == Str(ver[1]) \o "." \o Str(ver[2]) \o "." \o Str(ver[3])
        IN  /\ Cardinality(S) = MarkedCount
            /\ \A i \in S :
                  SubSeq(doc, i, VerMatch(doc, i).stop - 1)
                      = "version = \"" \o FormatVersion(ParsedAt(doc, i))
                        \o "\" # auto"
            /\ ParsedAt(doc, last) = ver
            /\ FormatVersion(ParsedAt(doc, last)) = new_version
            /\ Contains(new_version, "-rc") <=> ver[4] > 0
            /\ ver[4] = 0 => new_version = plain
            /\ ver[4] > 0 => new_version = plain \o "-rc" \o Str(ver[4])

\* an rc bump of 1.2.3-rc1 writes 1.2.3-rc2
C12_Witness ==
    /\ pc = "Substituted"
    /\ component = "rc"
    /\ cargo_file = MarkedLine("1.2.3-rc1")
    /\ new_version = "1.2.3-rc2"
    /\ doc = MarkedLine("1.2.3-rc2")

\* the manifest has a marked declaration without a patch component
HasMalformedDeclaration == Contains(ManifestText, "version = \"1.2\" # auto")

\* C13: a marked version line whose major, minor or patch component is
\* missing makes the patch fail before any mutation: the run never gets past
\* the substitution and no external tool is invoked; a missing rc number alone
\* is read as rc = 0.
C13_MalformedVersionAborts ==
    /\ HasMalformedDeclaration => (pc \in {"Idle", "Read"} /\ calls = <<>>)
    /\ (pc = "Substituted" /\ cargo_file = MarkedLine("0.9.9-rc"))
          => (err = "none" /\ ver[4] = IF component = "rc" THEN 1 ELSE 0)

\* the release command has been invoked
Released == Len(calls) = 8

\* C14 as stated: when the extraction finds no header of the tag the run does
\* not abort, the release command is invoked next, and it is given an empty
\* body.
C14_NoNotesPublishesEmpty ==
    /\ pc = "Pushed" => err = "none"
    /\ (NotesReached /\ NoTargetHeader) =>
          /\ err # "none" => Released
          /\ Released =>
                /\ SubSeq(calls[8], 1, 3) = <<"gh", "release", "create">>
                /\ calls[8][8] = ""

\* C14 amended: when the extraction finds no header of the tag the run does
\* not abort, the release command is invoked next, and it is given the empty
\* title and the body the extraction returned: the rewritten diff-reference
\* lines of the tag, nothing when there is none.
C14_NoNotesStillPublishes ==
    /\ pc = "Pushed" => err = "none"
    /\ (NotesReached /\ NoTargetHeader) =>
          /\ err # "none" => Released
          /\ ret.title = ""
          /\ ret.notes = Strip(RewrittenRefs(lines, 1))
          /\ (\A k \in 1..Len(lines) : ~IsTargetRef(lines[k])) => ret.notes = ""
          /\ Released =>
                /\ SubSeq(calls[8], 1, 3) = <<"gh", "release", "create">>
                /\ calls[8][6] = ret.title
                /\ calls[8][8] = ret.notes

\* a release published with empty notes: the changelog has the new version
\* only, the tag looked up has no header
C14_Witness ==
    /\ pc = "Done" /\ err = "none"
    /\ new_version = "1.2.4"
    /\ lines # <<>> /\ NoTargetHeader
    /\ Released
    /\ calls[8][6] = "" /\ calls[8][8] = ""

\* the number of release-header lines of the changelog that carry the tag
TargetHeaderCount ==
    Cardinality({k \in 1..Len(lines) : IsTargetHeader(lines[k])})

\* C15: a changelog with two release-header lines for the tag is a hard error
\* of get_release_notes: the call does not return a title and a body.
C15_DuplicateHeaderRejected ==
    (pc = "NotesDone" /\ TargetHeaderCount >= 2) => err # "none"

\* the version text between the quotes of the marked line of s that starts
\* at i
VersionTextAt(s, i) ==
    SubSeq(s, i + Len("version = \""),
           VerMatch(s, i).stop - Len("\" # auto") - 1)

\* the version text between the quotes of the only marked line of the manifest
WrittenVersion ==
    VersionTextAt(ManifestText, CHOOSE k \in MatchStarts(ManifestText) : TRUE)

\* the commands of the run that carry a version
VersionCalls ==
    {k \in 1..Len(calls) :
        <<calls[k][1], calls[k][2]>> \in
            {<<"yarn", "version">>, <<"git", "cliff">>, <<"git", "commit">>,
             <<"gh", "release">>}}

\* C16: with exactly one marked line, the version written into the manifest is
\* the bumped version, and yarn version, git cliff, the commit message and the
\* release tag all carry that same text, the last two behind the prefix v.
C16_OneVersionEverywhere ==
    calls # <<>> =>
        \A text \in {ManifestText} : \A S \in {MatchStarts(text)} :
            Cardinality(S) = 1 =>
                \A written \in {VersionTextAt(text, CHOOSE i \in S : TRUE)} :
                    /\ written = FormatVersion(ver)
                    /\ written = new_version
                    /\ \A k \in VersionCalls :
                          /\ calls[k][1] = "yarn" =>
                                SubSeq(calls[k], 3, 4)
                                    = <<"--new-version", written>>
                          /\ calls[k][2] = "cliff" =>
                                SubSeq(calls[k], 3, 4) = <<"--tag", written>>
                          /\ calls[k][2] = "commit" =>
                                SubSeq(calls[k], 3, 4)
                                    = <<"-m", "Bump version to v" \o written>>
                          /\ calls[k][1] = "gh" =>
                                calls[k][4] = "v" \o written

\* a finished minor bump of 1.2.3: 1.3.0 in the manifest and in all four
\* commands
C16_Witness ==
    /\ pc = "Done" /\ err = "none"
    /\ cargo_file = MarkedLine("1.3.0")
    /\ Cardinality(VersionCalls) = 4
    /\ calls[2][4] = "1.3.0" /\ calls[4][4] = "1.3.0"
    /\ calls[6][4] = "Bump version to v1.3.0"
    /\ calls[8][4] = "v1.3.0"

\* the release command carries the pre-release flag
Prerelease == \E k \in 1..Len(calls[8]) : calls[8][k] = "--prerelease"

\* C17: with exactly one marked line, the release command carries --prerelease
\* exactly when the version written into the manifest has rc > 0, which is
\* exactly when its text carries the -rc suffix.
C17_PrereleaseIffRc ==
    Released =>
        \A text \in {ManifestText} : \A S \in {MatchStarts(text)} :
            Cardinality(S) = 1 =>
                \A i \in S :
                    /\ Prerelease <=> ParsedAt(text, i)[4] > 0
                    /\ Prerelease <=> Contains(VersionTextAt(text, i), "-rc")
                    /\ Prerelease <=> ver[4] > 0
                    /\ Prerelease => Last(calls[8]) = "--prerelease"

\* a published release candidate
C17_Witness ==
    /\ pc = "Done" /\ err = "none"
    /\ MarkedCount = 1
    /\ Contains(WrittenVersion, "-rc")
    /\ Len(calls[8]) = 9 /\ calls[8][9] = "--prerelease"

\* a published plain release of a manifest that declared a release candidate
C17_WitnessPromoted ==
    /\ pc = "Done" /\ err = "none"
    /\ MarkedCount = 1
    /\ component # "rc"
    /\ ~Contains(WrittenVersion, "-rc")
    /\ Len(calls[8]) = 8

\* a diff-reference line of a tag other than the one looked up
IsOtherRef(line) ==
    \E t \in Tags \ {tag} : StartsWith(line, "[" \o t \o "]: ")

\* C18: the body returned for a tag holds no diff-reference line of another
\* tag, also when the block of the tag is the last one before those lines.
C18_NoForeignRefInBody ==
    pc = "NotesDone" =>
        \A k \in 1..Len(lines) :
            IsOtherRef(lines[k]) => ~Contains(ret.notes, BytesRStrip(lines[k]))

\* a line of Cargo.toml with the placeholder declaration replaced and every
\* other character kept
RvsLineAfter(l, v) ==
    CASE l = "version = \"2.0.0\" # auto\n" -> VersionSpec(v) \o "\n"
      [] l = "version = \"2.0.0\" # auto\r\n" -> VersionSpec(v) \o "\r\n"
      [] l = "  version = \"2.0.0\" # auto # x\n"
            -> "  " \o VersionSpec(v) \o " # x\n"
      [] OTHER -> l

RECURSIVE Flatten(_)
Flatten(ls) == IF ls = <<>> THEN "" ELSE Head(ls) \o Flatten(Tail(ls))

\* text t with every placeholder declaration replaced, line by line
ExpectedRvs(t, v) ==
    LET ls == ReadLines(t)
    IN  Flatten([k \in 1..Len(ls) |-> RvsLineAfter(ls[k], v)])

\* main of replace_version_spec.py returns in this step
RvsReturns == pc # "RvsReturned" /\ pc' = "RvsReturned"

\* C19 as stated: main returns 1 and does not write Cargo.toml when the file
\* is missing or lacks the placeholder declaration; otherwise it returns 0
\* and the file is what it was with every placeholder declaration replaced
\* and nothing else changed.
C19_ReplaceChangesNothingElse ==
    [][ /\ RvsReturns =>
              LET found == cargo_exists /\ Contains(cargo_file, OldVersion)
              IN  /\ exit_code' = (IF found THEN 0 ELSE 1)
                  /\ cargo_file' = (IF found
                                    THEN ExpectedRvs(cargo_file, new_version)
                                    ELSE cargo_file)
        /\ ~RvsReturns => (cargo_file' = cargo_file /\ exit_code' = exit_code)
        /\ cargo_exists' = cargo_exists ]_vars

\* C19 amended: as above, but the file written is the text of the file as
\* read, i.e. with every line ending turned into "\n", with every placeholder
\* declaration replaced and nothing else changed.
C19_ReplaceChangesNothingElseInText ==
    [][ /\ RvsReturns =>
              LET text  == ReadText(cargo_file)
                  found == cargo_exists /\ Contains(text, OldVersion)
              IN  /\ exit_code' = (IF found THEN 0 ELSE 1)
                  /\ cargo_file' = (IF found
                                    THEN ExpectedRvs(text, new_version)
                                    ELSE cargo_file)
        /\ ~RvsReturns => (cargo_file' = cargo_file /\ exit_code' = exit_code)
        /\ cargo_exists' = cargo_exists ]_vars

\* two declarations replaced, the table header and the trailing comment kept
C19_Witness ==
    /\ pc = "RvsReturned" /\ exit_code = 0
    /\ new_version = "2.1.0-rc1"
    /\ cargo_file = "[workspace.package]\n"
                    \o "version = \"2.1.0-rc1\" # auto\n"
                    \o "  version = \"2.1.0-rc1\" # auto # x\n"

\* the two refusals: no file, and a file without the placeholder declaration
C19_WitnessRefused ==
    /\ pc = "RvsReturned" /\ exit_code = 1
    /\ cargo_exists
    /\ cargo_file = "version = \"2.0.1\" # auto\nversion = \"2.0.0\"\n"

====
